---- MODULE Spec2Model ----
(***************************************************************************)
(* A model of the Redux store core (src/src/createStore.js).               *)
(*                                                                         *)
(* One store instance is modelled.  Reducers and listeners are user code   *)
(* that runs inside dispatch and may call back into the store, so dispatch *)
(* is split at those call-backs: a stack of dispatch activations records,  *)
(* for each dispatch that has not returned yet, whether its reducer or one *)
(* of its listeners is running.  The code that runs "now" is the user code *)
(* of the top activation (or the application, when the stack is empty),    *)
(* and every store call is made by that code.                              *)
(***************************************************************************)
EXTENDS Integers, Sequences, FiniteSets, TLC

(* ------------------------------ bounds --------------------------------- *)
\* state values are the counters 0 .. StateMod-1
StateMod == 2
\* Spec: subscribe calls that register a listener, over the life of the store
MaxSubs == 1
\* Spec: dispatches that have not returned yet (nesting through listeners)
MaxDepth == 2
\* SpecListeners: the same two bounds
MaxRegs == 2
MaxNest == 2
\* SpecOrder: the same two bounds
MaxOrderSubs == 3
MaxOrderDepth == 1
\* SpecCombined: the keys of the mapping handed to combineReducers
MaxKeys == 2
\* SpecMiddleware: the middlewares handed to applyMiddleware
MaxMiddlewares == 2
\* SpecObservable: subscribe calls that register a listener (those of the
\* observable included), and subscribe calls of the observable that do
MaxObsSubs == 2
MaxObservers == 1

(* ------------------------------ values --------------------------------- *)
\* the JavaScript value `undefined` in the position of a state
Undefined == 0 - 1
\* the outcome "the reducer threw" of a reducer application
Raised == 0 - 2

StateValues == 0 .. (StateMod - 1)

\* reserved action types (utils/actionTypes)
INIT == "@@redux/INIT"
REPLACE == "@@redux/REPLACE"

\* an action value: plain tells whether isPlainObject accepts it, type is its
\* `type` property ("undefined" when the property is absent)
ValidActions == { [plain |-> TRUE, type |-> t] : t \in {"INC", "BOOM"} }
InvalidActions == { [plain |-> TRUE, type |-> "undefined"],
                    [plain |-> FALSE, type |-> "INC"] }
Actions == ValidActions \cup InvalidActions
InitAction == [plain |-> TRUE, type |-> INIT]
ReplaceAction == [plain |-> TRUE, type |-> REPLACE]
NoAction == [plain |-> FALSE, type |-> "undefined"]

\* values handed in as a reducer: three functions and one non-function
CallableReducers == {"counter", "fragile", "broken"}
ReducerArgs == CallableReducers \cup {"notfn"}
\* values handed in as a listener: two callbacks, and a non-function
Callbacks == {"f", "g"}
ListenerArgs == {"f", "notfn"}
\* values handed in as an observer: an object with a next method, an object
\* without one, a non-object
ObserverArgs == {"observer", "nonext", "notobj"}
\* values handed in as an enhancer: absent, or a non-function
EnhancerArgs == {"undefined", "notfn"}

\* typeof v === 'function'
IsFunction(v) == v # "notfn" /\ v # "undefined"

\* isPlainObject(action)
isPlainObject(action) == action.plain

(* The reducers under test, as the pure functions they are:                *)
(*   counter (s = 0, a) => a.type === 'INC' ? (s + 1) % StateMod : s       *)
(*   fragile (s = 0, a) => { if (a.type === 'BOOM') throw ...;             *)
(*                           return (s + 1) % StateMod }                   *)
(*   broken  (s, a) => { throw ... }                                       *)
Default(s) == IF s = Undefined THEN 0 ELSE s

Reduce(reducer, s, action) ==
    CASE reducer = "counter" ->
           IF action.type = "INC" THEN (Default(s) + 1) % StateMod ELSE Default(s)
      [] reducer = "fragile" ->
           IF action.type = "BOOM" THEN Raised
           ELSE (Default(s) + 1) % StateMod
      [] reducer = "broken" -> Raised

(* ------------------------------ state ---------------------------------- *)
(* The two listener arrays are kept by value together with what the code   *)
(* can tell of their identity: nextIsCurrent says that nextListeners and   *)
(* currentListeners are one and the same array, and the isCurrent of a     *)
(* dispatch says that its local `listeners` is the array currentListeners  *)
(* names.  An array that currentListeners has stopped naming is named by   *)
(* no store variable again, so no other aliasing exists.                   *)
VARIABLES
    created,           \* createStore has returned a store
    currentReducer,    \* createStore.js:42
    currentState,      \* createStore.js:43
    currentListeners,  \* createStore.js:44, the elements of the array
    nextListeners,     \* createStore.js:45, the elements of the array
    nextIsCurrent,     \* nextListeners === currentListeners
    isDispatching,     \* createStore.js:46
    regs,              \* the closures made by subscribe: listener, isSubscribed
    stack,             \* the dispatch calls that have not returned
    ret,               \* how the last store call ended
    observers,         \* the subscriptions of the observable, createStore.js:226-239
    audit,             \* history of the top-level dispatch that runs (see AuditStart)
    combination,       \* the closure made by combineReducers, combineReducers.js:142-172
    root,              \* a store whose state is a record of substates
    res,               \* how the last call of the combination, or of that store, ended
    middlewares,       \* the arguments of applyMiddleware, applyMiddleware.js:30
    installed,         \* the `dispatch` variable of applyMiddleware.js:35-49
    log                \* what the middlewares and the base store have recorded

\* the variables of combineReducers and of applyMiddleware
composed == <<combination, root, res, middlewares, installed, log>>

vars == <<created, currentReducer, currentState, currentListeners,
          nextListeners, nextIsCurrent, isDispatching, regs, stack, ret,
          observers, audit, composed>>

Result(op, outcome, val) == [op |-> op, outcome |-> outcome, val |-> val]

Top == stack[Len(stack)]
Pop == SubSeq(stack, 1, Len(stack) - 1)

(* ------------------------------ helpers -------------------------------- *)
\* Array.prototype.indexOf, 0-based, -1 when absent
IndexOf(seq, x) ==
    IF \E k \in 1 .. Len(seq) : seq[k] = x
    THEN (CHOOSE k \in 1 .. Len(seq) :
             seq[k] = x /\ \A j \in 1 .. (k - 1) : seq[j] # x) - 1
    ELSE 0 - 1

\* Array.prototype.splice(index, 1): a negative index counts from the end
Splice1(seq, index) ==
    LET start == IF index < 0
                 THEN (IF Len(seq) + index < 0 THEN 0 ELSE Len(seq) + index)
                 ELSE index
    IN  IF start >= Len(seq) THEN seq
        ELSE SubSeq(seq, 1, start) \o SubSeq(seq, start + 2, Len(seq))

\* the callbacks of the registrations that are subscribed, oldest first
RECURSIVE Subscribed(_)
Subscribed(rs) ==
    IF rs = << >> THEN << >>
    ELSE IF Head(rs).isSubscribed
         THEN <<Head(rs).listener>> \o Subscribed(Tail(rs))
         ELSE Subscribed(Tail(rs))

\* the number of elements of seq that equal x
RECURSIVE Count(_, _)
Count(seq, x) ==
    IF seq = << >> THEN 0
    ELSE (IF Head(seq) = x THEN 1 ELSE 0) + Count(Tail(seq), x)

(* ---------------------------- combineReducers -------------------------- *)
(* The model of src/src/combineReducers.js.  The file calls                *)
(* getUnexpectedStateShapeWarningMessage (:179), which it does not define, *)
(* in builds that are not production builds; the warning step of :178-188  *)
(* changes no result and is left out.                                      *)

\* the keys of a mapping, in the order of Object.keys
KeyNames == <<"a", "b", "c">>
Keys == {KeyNames[k] : k \in 1 .. MaxKeys}

\* the type of the action of ActionTypes.PROBE_UNKNOWN_ACTION() (utils/actionTypes)
PROBE == "@@redux/PROBE_UNKNOWN_ACTION"

\* the types of the actions an application dispatches to the combination
CombinedTypes == {"INC", "DROP", "NOP"}
AllTypes == CombinedTypes \cup {INIT, REPLACE, PROBE}

(* The values handed in as sub-reducers: four functions and a non-function *)
(*   tally  (s = 0, a) => a.type === 'INC' || a.type === 'DROP'            *)
(*                          ? (s + 1) % StateMod : s                       *)
(*   echo   (s, a) => s                         no default for the state   *)
(*   strict (s = 0, a) => a.type === INIT ? s :                            *)
(*                        a.type === 'INC' ? (s + 1) % StateMod : undefined*)
(*   drops  (s = 0, a) => a.type === 'DROP' ? undefined : s                *)
SubReducers == {"tally", "echo", "strict", "drops"}
SubReducerArgs == SubReducers \cup {"notfn"}

SubReduce(reducer, s, type) ==
    CASE reducer = "tally" ->
           IF type \in {"INC", "DROP"} THEN (Default(s) + 1) % StateMod ELSE Default(s)
      [] reducer = "echo" -> s
      [] reducer = "strict" ->
           IF type = INIT THEN Default(s)
           ELSE IF type = "INC" THEN (Default(s) + 1) % StateMod
           ELSE Undefined
      [] reducer = "drops" ->
           IF type = "DROP" THEN Undefined ELSE Default(s)

\* the mappings handed to combineReducers: the k-th element is the value of
\* the key KeyNames[k]
Mappings == UNION {[1 .. n -> SubReducerArgs] : n \in 0 .. MaxKeys}

(* A state record is an object: ref is its identity, fields its own        *)
(* properties.  Substates are numbers, compared by value.  Absent is the   *)
(* value undefined in the position of a state record.                      *)
NoFields == [k \in {} |-> 0]
Absent == [ref |-> Undefined, fields |-> NoFields]
\* state[key]
Property(state, key) ==
    IF key \in DOMAIN state.fields THEN state.fields[key] ELSE Undefined
\* the identity of an object allocated while `state` is alive
Fresh(state) == IF state.ref = 0 THEN 1 ELSE 0
\* the state records handed to the combination
Records == {[ref |-> r, fields |-> f] :
               r \in {0, 1}, f \in UNION {[K -> StateValues] : K \in SUBSET Keys}}
\* a key that no mapping names
StrayKey == "z"
\* state records that hold the stray key beside keys of the mappings
StrayStates == {[ref |-> 0, fields |-> [k \in K \cup {StrayKey} |-> 0]] : K \in SUBSET Keys}
\* the values handed to createStore as preloaded state
PreloadedStates == {Absent} \cup {[ref |-> 0, fields |-> [k \in K |-> 0]] : K \in SUBSET Keys}

\* combineReducers.js:142-157, finalReducers: the entries that are functions,
\* from the k-th on
RECURSIVE FinalReducers(_, _)
FinalReducers(reducers, k) ==
    IF k > Len(reducers) THEN << >>
    ELSE (IF IsFunction(reducers[k])
          THEN <<[key |-> KeyNames[k], reducer |-> reducers[k]]>>
          ELSE << >>) \o FinalReducers(reducers, k + 1)

NoError == [name |-> "none", key |-> "none", type |-> "none"]
ShapeError(key, type) == [name |-> "ShapeError", key |-> key, type |-> type]
UndefinedSubstate(key, type) == [name |-> "UndefinedSubstate", key |-> key, type |-> type]

\* an assertReducerShape without the probe of :97-101
RECURSIVE assertShapeInitOnly(_)
assertShapeInitOnly(reducers) ==
    IF reducers = << >> THEN NoError
    ELSE IF SubReduce(Head(reducers).reducer, Undefined, INIT) = Undefined
         THEN ShapeError(Head(reducers).key, INIT)
         ELSE assertShapeInitOnly(Tail(reducers))

\* assertReducerShape(reducers), combineReducers.js:84-111: the Error it
\* throws, NoError when it returns
RECURSIVE assertReducerShape(_)
assertReducerShape(reducers) ==
    IF reducers = << >> THEN NoError
    ELSE IF SubReduce(Head(reducers).reducer, Undefined, INIT) = Undefined
         THEN ShapeError(Head(reducers).key, INIT)
         ELSE IF SubReduce(Head(reducers).reducer, Undefined, PROBE) = Undefined
              THEN ShapeError(Head(reducers).key, PROBE)
              ELSE assertReducerShape(Tail(reducers))

\* combineReducers(reducers), combineReducers.js:142-172: the closure
\* variables of the combination it returns
combineReducers(reducers) ==
    [made |-> TRUE,
     finalReducers |-> FinalReducers(reducers, 1),
     shapeAssertionError |-> assertReducerShape(FinalReducers(reducers, 1))]

NoCombination == [made |-> FALSE, finalReducers |-> << >>, shapeAssertionError |-> NoError]

\* how a call of a reducer on a state record ends: the value returned or the
\* Error thrown, the keys whose sub-reducers were called (calls), and the
\* properties nextState had been given (built)
Outcome(outcome, error, value, calls, built) ==
    [outcome |-> outcome, error |-> error, value |-> value, calls |-> calls,
     built |-> built]

\* the loop of combination, combineReducers.js:190-204, from the i-th key on
RECURSIVE CombineLoop(_, _, _, _, _, _)
CombineLoop(reducers, state, type, i, nextState, hasChanged) ==
    IF i > Len(reducers)
    THEN Outcome("ok", NoError,
                 IF hasChanged THEN [ref |-> Fresh(state), fields |-> nextState]
                 ELSE state,
                 [k \in 1 .. Len(reducers) |-> reducers[k].key], nextState)
    ELSE LET key == reducers[i].key
             previousStateForKey == Property(state, key)
             nextStateForKey == SubReduce(reducers[i].reducer, previousStateForKey, type)
         IN  IF nextStateForKey = Undefined
             THEN Outcome("UndefinedSubstate", UndefinedSubstate(key, type), Absent,
                          [k \in 1 .. i |-> reducers[k].key], nextState)
             ELSE CombineLoop(reducers, state, type, i + 1,
                              nextState @@ (key :> nextStateForKey),
                              hasChanged \/ nextStateForKey # previousStateForKey)

\* a combination that does not look at shapeAssertionError
CombinationUnchecked(c, state, type) ==
    CombineLoop(c.finalReducers,
                IF state = Absent THEN [ref |-> Fresh(Absent), fields |-> NoFields]
                ELSE state,
                type, 1, NoFields, FALSE)

\* a combination that always returns the record it has built
CombinationAlwaysNew(c, state, type) ==
    IF c.shapeAssertionError # NoError
    THEN Outcome("ShapeError", c.shapeAssertionError, Absent, << >>, NoFields)
    ELSE CombineLoop(c.finalReducers,
                     IF state = Absent THEN [ref |-> Fresh(Absent), fields |-> NoFields]
                     ELSE state,
                     type, 1, NoFields, TRUE)

\* a combination that returns { ...state, ...nextState }
CombinationSpread(c, state, type) ==
    LET o == IF c.shapeAssertionError # NoError
             THEN Outcome("ShapeError", c.shapeAssertionError, Absent, << >>, NoFields)
             ELSE CombineLoop(c.finalReducers,
                              IF state = Absent
                              THEN [ref |-> Fresh(Absent), fields |-> NoFields]
                              ELSE state,
                              type, 1, NoFields, FALSE)
    IN  IF o.outcome = "ok" /\ state # Absent /\ o.value.ref # state.ref
        THEN [o EXCEPT !.value.fields = @ @@ state.fields]
        ELSE o

\* combination(state = {}, action), combineReducers.js:173-205, of the
\* closure c
Combination(c, state, type) ==
    IF c.shapeAssertionError # NoError
    THEN Outcome("ShapeError", c.shapeAssertionError, Absent, << >>, NoFields)
    ELSE CombineLoop(c.finalReducers,
                     IF state = Absent THEN [ref |-> Fresh(Absent), fields |-> NoFields]
                     ELSE state,
                     type, 1, NoFields, FALSE)

(* A store whose reducer is the combination, or the reducer                *)
(*   keep (state = {}, a) => state                                         *)
(* Reducers of state records make no store calls and these stores have no  *)
(* listeners, so each store call is one step.                              *)
NoRoot == [created |-> FALSE, reducer |-> "none", state |-> Absent]
NoResult == [op |-> "none", state |-> Absent, type |-> "none",
             outcome |-> "none", error |-> NoError, value |-> Absent,
             calls |-> << >>]
\* the call op, with an action of that type, has ended as o (state: the
\* state argument, for a call of the combination by the application)
Ended(op, state, type, o) ==
    [op |-> op, state |-> state, type |-> type,
     outcome |-> o.outcome, error |-> o.error, value |-> o.value,
     calls |-> o.calls]

\* createStore.js:176, currentReducer(currentState, action) of that store
RootReduce(reducer, state, type) ==
    IF reducer = "keep"
    THEN Outcome("ok", NoError,
                 IF state = Absent THEN [ref |-> Fresh(Absent), fields |-> NoFields]
                 ELSE state,
                 << >>, NoFields)
    ELSE Combination(combination, state, type)

\* a dispatch that stores what the reducer had built when it threw
RootStoredPartial(o) ==
    IF o.outcome = "ok" THEN o.value
    ELSE [ref |-> Fresh(root.state), fields |-> o.built]

\* createStore.js:174-179, currentState after the reducer call: the
\* assignment is not made when the call throws
RootStored(o) == IF o.outcome = "ok" THEN o.value ELSE root.state

\* the variables of the store core and of applyMiddleware
besideCombined == <<created, currentReducer, currentState, currentListeners,
                    nextListeners, nextIsCurrent, isDispatching, regs, stack, ret,
                    observers, audit, middlewares, installed, log>>

\* combineReducers(reducers), combineReducers.js:142-172
CombineReducers(reducers) ==
    /\ ~combination.made
    /\ combination' = combineReducers(reducers)
    /\ res' = Ended("combineReducers", Absent, "none",
                    Outcome("ok", NoError, Absent, << >>, NoFields))
    /\ UNCHANGED <<root, besideCombined>>

\* a call combination(state, action) made by the application.  The
\* combination assigns none of its closure variables, so a call made right
\* after combineReducers stands for a call made at any time.
CallCombination(state, type) ==
    /\ combination.made
    /\ res.op = "combineReducers"
    /\ res' = Ended("combination", state, type, Combination(combination, state, type))
    /\ UNCHANGED <<combination, root, besideCombined>>

\* createStore(reducer, preloadedState), createStore.js:24-46 and :251-259
RootCreate(reducer, preloadedState) ==
    /\ ~root.created
    /\ reducer = "combination" => combination.made
    /\ LET o == RootReduce(reducer, preloadedState, INIT) IN
          /\ root' = IF o.outcome = "ok"
                     THEN [created |-> TRUE, reducer |-> reducer, state |-> o.value]
                     ELSE root
          /\ res' = Ended("createStore", Absent, INIT, o)
    /\ UNCHANGED <<combination, besideCombined>>

\* dispatch(action) of that store, createStore.js:156-188
RootDispatch(type) ==
    /\ root.created
    /\ LET o == RootReduce(root.reducer, root.state, type) IN
          /\ root' = [root EXCEPT !.state = RootStored(o)]
          /\ res' = Ended("dispatch", Absent, type, o)
    /\ UNCHANGED <<combination, besideCombined>>

\* replaceReducer(nextReducer) of that store, createStore.js:200-207
RootReplaceReducer(nextReducer) ==
    /\ root.created
    /\ nextReducer = "combination" => combination.made
    /\ LET o == RootReduce(nextReducer, root.state, REPLACE) IN
          /\ root' = [root EXCEPT !.reducer = nextReducer, !.state = RootStored(o)]
          /\ res' = Ended("replaceReducer", Absent, REPLACE, o)
    /\ UNCHANGED <<combination, besideCombined>>

(* ---------------------------- applyMiddleware -------------------------- *)
(* The model of src/src/applyMiddleware.js and src/src/compose.js.         *)
(* A dispatch function is the placeholder of applyMiddleware.js:35-40, or  *)
(* the action handler of a middleware together with the handlers it        *)
(* reaches through next: chain lists the middlewares whose handlers run,   *)
(* outermost first, and after the last of them comes store.dispatch.       *)
(* Middlewares make their calls synchronously and the reducers and         *)
(* listeners of this store make none, so a call of the enhanced dispatch   *)
(* is one step.                                                            *)

\* applyMiddleware has not been called
NotApplied == [kind |-> "none", chain |-> << >>]
\* store.dispatch, applyMiddleware.js:49
StoreDispatch == [kind |-> "handler", chain |-> << >>]

(* ------------------------------ createStore ---------------------------- *)
\* createStore.js:44, the listener array of a new store
InitialListeners == << >>

\* a createStore that does not dispatch INIT
InitialStateWithoutInit(reducer, preloadedState) == preloadedState

\* createStore.js:43 and :251, the state a new store holds: the preloaded
\* state put through the INIT dispatch
InitialState(reducer, preloadedState) == Reduce(reducer, preloadedState, InitAction)

\* the history variable is kept by the specification that reads it only
AuditOff == [on |-> FALSE, before |-> {}, seen |-> [s \in StateValues |-> {}]]

InitStore ==
    /\ created = FALSE
    /\ currentReducer = "undefined"
    /\ currentState = Undefined
    /\ currentListeners = << >>
    /\ nextListeners = << >>
    /\ nextIsCurrent = TRUE
    /\ isDispatching = FALSE
    /\ regs = << >>
    /\ stack = << >>
    /\ ret = Result("none", "none", Undefined)
    /\ observers = << >>
    /\ combination = NoCombination
    /\ root = NoRoot
    /\ res = NoResult
    /\ middlewares = << >>
    /\ installed = NotApplied
    /\ log = << >>

Init == InitStore /\ audit = AuditOff

\* createStore(reducer, preloadedState, enhancer), createStore.js:24-46,251-259
CreateStore(reducer, preloadedState, enhancer) ==
    /\ ~created
    /\ IF enhancer # "undefined"
       THEN \* :30-33 (only enhancers that are no function are drawn here)
            /\ ~IsFunction(enhancer)
            /\ ret' = Result("createStore", "InvalidArgument", Undefined)
            /\ UNCHANGED <<created, currentReducer, currentState, currentListeners,
                           nextListeners, nextIsCurrent, isDispatching>>
       ELSE IF ~IsFunction(reducer)
       THEN \* :38-40
            /\ ret' = Result("createStore", "InvalidArgument", Undefined)
            /\ UNCHANGED <<created, currentReducer, currentState, currentListeners,
                           nextListeners, nextIsCurrent, isDispatching>>
       ELSE IF InitialState(reducer, preloadedState) = Raised
       THEN \* the INIT dispatch of :251 throws, no store is returned
            /\ ret' = Result("createStore", "ReducerError", Undefined)
            /\ UNCHANGED <<created, currentReducer, currentState, currentListeners,
                           nextListeners, nextIsCurrent, isDispatching>>
       ELSE /\ created' = TRUE
            /\ currentReducer' = reducer
            /\ currentState' = InitialState(reducer, preloadedState)
            /\ currentListeners' = InitialListeners
            /\ nextListeners' = InitialListeners
            /\ nextIsCurrent' = TRUE
            /\ isDispatching' = FALSE
            /\ ret' = Result("createStore", "ok", Undefined)
    /\ UNCHANGED <<regs, stack, observers, audit>>
    /\ UNCHANGED composed

(* ------------------------------ getState ------------------------------- *)
\* a getState that refuses until dispatch has returned
GetStateCheckUntilExit == IF stack # << >> THEN "IllegalReentrancy" ELSE "ok"

\* createStore.js:60, the guard of getState
GetStateCheck == IF isDispatching THEN "IllegalReentrancy" ELSE "ok"

\* getState(), createStore.js:59-69
GetState ==
    /\ created
    /\ ret' = IF GetStateCheck = "ok"
              THEN Result("getState", "ok", currentState)
              ELSE Result("getState", GetStateCheck, Undefined)
    /\ UNCHANGED <<created, currentReducer, currentState, currentListeners,
                   nextListeners, nextIsCurrent, isDispatching, regs, stack,
                   observers, audit>>
    /\ UNCHANGED composed

(* ------------------------------ subscribe ------------------------------ *)
\* an ensureCanMutateNextListeners that never copies
ensureWithoutCopy == [array |-> nextListeners, isCurrent |-> nextIsCurrent]

\* ensureCanMutateNextListeners(), createStore.js:48-52: afterwards
\* nextListeners is a copy of currentListeners if it was that very array
ensureCanMutateNextListeners ==
    IF nextIsCurrent
    THEN [array |-> currentListeners, isCurrent |-> FALSE]
    ELSE [array |-> nextListeners, isCurrent |-> FALSE]

\* the array nextListeners names becomes `array`, in place: every name of
\* that array sees the change (isCurrent: it is the array currentListeners
\* names as well)
\* (stk: the calls that have not returned once this one is over)
WriteNextListenersIn(stk, array, isCurrent) ==
    /\ nextListeners' = array
    /\ nextIsCurrent' = isCurrent
    /\ currentListeners' = IF isCurrent THEN array ELSE currentListeners
    /\ stack' = [k \in 1 .. Len(stk) |->
                   IF isCurrent /\ stk[k].isCurrent
                   THEN [stk[k] EXCEPT !.listeners = array]
                   ELSE stk[k]]

WriteNextListeners(array, isCurrent) == WriteNextListenersIn(stack, array, isCurrent)

\* a subscribe without the isDispatching guard
SubscribeCheckUnguarded(listener) ==
    IF ~IsFunction(listener) THEN "InvalidArgument" ELSE "ok"

\* createStore.js:95-106, the guards of subscribe
SubscribeCheck(listener) ==
    IF ~IsFunction(listener) THEN "InvalidArgument"
    ELSE IF isDispatching THEN "IllegalReentrancy"
    ELSE "ok"

\* createStore.js:108-111, subscribe once its guards are passed: the closure
\* with its isSubscribed is made and the listener pushed
\* (stk: the calls that have not returned once this one is over)
RegisterIn(stk, listener) ==
    /\ regs' = Append(regs, [listener |-> listener, isSubscribed |-> TRUE])
    /\ LET e == ensureCanMutateNextListeners IN
          WriteNextListenersIn(stk, Append(e.array, listener), e.isCurrent)

Register(listener) == RegisterIn(stack, listener)

\* subscribe(listener), createStore.js:94-112 (maxSubs bounds the model)
Subscribe(listener, maxSubs) ==
    /\ created
    /\ IF SubscribeCheck(listener) # "ok"
       THEN /\ ret' = Result("subscribe", SubscribeCheck(listener), Undefined)
            /\ UNCHANGED <<currentListeners, nextListeners, nextIsCurrent, regs, stack>>
       ELSE /\ Len(regs) < maxSubs
            /\ Register(listener)
            /\ ret' = Result("subscribe", "ok", Undefined)
    /\ UNCHANGED <<created, currentReducer, currentState, isDispatching,
                   observers, audit>>
    /\ UNCHANGED composed

\* createStore.js:114-122, the guards of unsubscribe
UnsubscribeCheck(r) ==
    IF ~regs[r].isSubscribed THEN "noop"
    ELSE IF isDispatching THEN "IllegalReentrancy"
    ELSE "ok"

\* createStore.js:127-128, the array after the listener is taken out
RemoveListener(array, listener) == Splice1(array, IndexOf(array, listener))

\* the unsubscribe returned by the r-th subscribe, createStore.js:113-129
Unsubscribe(r) ==
    /\ created
    /\ r \in 1 .. Len(regs)
    /\ IF UnsubscribeCheck(r) = "noop"
       THEN /\ ret' = Result("unsubscribe", "noop", Undefined)
            /\ UNCHANGED <<currentListeners, nextListeners, nextIsCurrent, regs, stack>>
       ELSE IF UnsubscribeCheck(r) # "ok"
       THEN /\ ret' = Result("unsubscribe", UnsubscribeCheck(r), Undefined)
            /\ UNCHANGED <<currentListeners, nextListeners, nextIsCurrent, regs, stack>>
       ELSE /\ regs' = [regs EXCEPT ![r].isSubscribed = FALSE]
            /\ LET e == ensureCanMutateNextListeners IN
                  WriteNextListeners(RemoveListener(e.array, regs[r].listener),
                                     e.isCurrent)
            /\ ret' = Result("unsubscribe", "ok", Undefined)
    /\ UNCHANGED <<created, currentReducer, currentState, isDispatching,
                   observers, audit>>
    /\ UNCHANGED composed

(* ------------------------------ dispatch ------------------------------- *)
\* a dispatch that refuses until the running dispatch has returned
DispatchCheckUntilExit(action) ==
    IF ~isPlainObject(action) THEN "InvalidAction"
    ELSE IF action.type = "undefined" THEN "InvalidAction"
    ELSE IF isDispatching \/ stack # << >> THEN "IllegalReentrancy"
    ELSE "ok"

\* a dispatch that looks at isDispatching before it looks at the action
DispatchCheckFlagFirst(action) ==
    IF isDispatching THEN "IllegalReentrancy"
    ELSE IF ~isPlainObject(action) THEN "InvalidAction"
    ELSE IF action.type = "undefined" THEN "InvalidAction"
    ELSE "ok"

\* createStore.js:157-172, the guards of dispatch, in the order of the code
DispatchCheck(action) ==
    IF ~isPlainObject(action) THEN "InvalidAction"
    ELSE IF action.type = "undefined" THEN "InvalidAction"
    ELSE IF isDispatching THEN "IllegalReentrancy"
    ELSE "ok"

\* a dispatch call whose reducer has been entered, createStore.js:174-176:
\* the reducer and its arguments are those of the moment of the call
Activation(action, reducer, op) ==
    [action |-> action, reducer |-> reducer, state |-> currentState, op |-> op,
     pc |-> "reducer", listeners |-> << >>, isCurrent |-> FALSE, i |-> 0,
     invoked |-> << >>, snap |-> << >>, live |-> << >>]

\* dispatch(action) up to the call of the reducer, createStore.js:156-176.
\* op names the store call that is being made, reducer the reducer it runs
\* (maxDepth bounds the model).
EnterDispatch(action, reducer, op, maxDepth) ==
    IF DispatchCheck(action) # "ok"
    THEN /\ ret' = Result(op, DispatchCheck(action), Undefined)
         /\ UNCHANGED <<isDispatching, stack>>
    ELSE /\ Len(stack) < maxDepth
         /\ isDispatching' = TRUE
         /\ stack' = Append(stack, Activation(action, reducer, op))
         /\ ret' = Result(op, "entered", Undefined)

\* History of a top-level dispatch (one called while no dispatch runs), for
\* the guarantee of the comment at createStore.js:85-89: the callbacks that
\* were subscribed when it was called (before), and for each state value the
\* callbacks that have been called since while the store held it (seen).
AuditStart ==
    IF audit.on
    THEN [on |-> TRUE,
          before |-> {regs[k].listener : k \in {j \in 1 .. Len(regs) : regs[j].isSubscribed}},
          seen |-> [s \in StateValues |-> {}]]
    ELSE audit

\* createStore.js:184, the history once `listener` is called in state `state`
AuditInvoke(listener, state) ==
    IF audit.on THEN [audit EXCEPT !.seen[state] = @ \cup {listener}] ELSE audit

\* the closures observeState of the observable, createStore.js:231-235, in
\* the order in which its subscribe makes them
ObserveState == <<"o1", "o2", "o3">>

\* createStore.js:231-235 and :184, observeState is called as a listener in
\* state `state`: it hands getState() to the next of its observer
Deliver(listener, state) ==
    [k \in 1 .. Len(observers) |->
        IF ObserveState[k] = listener
        THEN [observers[k] EXCEPT !.last = state, !.n = 1 - @]
        ELSE observers[k]]

\* dispatch(action), called by the code that is running
Dispatch(action, maxDepth) ==
    /\ created
    /\ EnterDispatch(action, currentReducer, "dispatch", maxDepth)
    /\ audit' = IF DispatchCheck(action) = "ok" /\ stack = << >>
                THEN AuditStart ELSE audit
    /\ UNCHANGED <<created, currentReducer, currentState, currentListeners,
                   nextListeners, nextIsCurrent, regs, observers>>
    /\ UNCHANGED composed

\* a replaceReducer that dispatches REPLACE before it installs the reducer
ReducerBeforeReplace(nextReducer) == currentReducer

\* createStore.js:205-206, the reducer that the REPLACE dispatch runs: the
\* assignment of :205 comes first, so it is the one just installed
ReducerForReplace(nextReducer) == nextReducer

\* a replaceReducer that installs the reducer only while no reducer runs
InstalledIfIdle(nextReducer) == IF isDispatching THEN currentReducer ELSE nextReducer

\* createStore.js:205, the value currentReducer is assigned: the assignment
\* comes before every check that dispatch makes and sits in no try
InstalledReducer(nextReducer) == nextReducer

\* replaceReducer(nextReducer), createStore.js:200-207
ReplaceReducer(nextReducer, maxDepth) ==
    /\ created
    /\ IF ~IsFunction(nextReducer)
       THEN /\ ret' = Result("replaceReducer", "InvalidArgument", Undefined)
            /\ UNCHANGED <<currentReducer, isDispatching, stack>>
       ELSE /\ currentReducer' = InstalledReducer(nextReducer)
            /\ EnterDispatch(ReplaceAction, ReducerForReplace(nextReducer),
                             "replaceReducer", maxDepth)
    /\ UNCHANGED <<created, currentState, currentListeners, nextListeners,
                   nextIsCurrent, regs, observers, audit>>
    /\ UNCHANGED composed

\* a dispatch that clears the flag after the call instead of in a finally
FlagWithoutFinally(threw) == threw

\* a dispatch that stores the state it had
StoredStateStale(result) == currentState

\* createStore.js:177-179, isDispatching once the reducer call is over
\* (threw: the reducer threw)
FlagAfterReducer(threw) == FALSE

\* createStore.js:176, the state stored when the reducer returns result
StoredState(result) == result

\* a dispatch that takes its snapshot of the listeners in the finally
ListenersPromotedOnThrow == nextListeners

\* createStore.js:181 is not reached when the reducer throws: the elements of
\* currentListeners after the throw
ListenersAfterThrow == currentListeners

\* the reducer of the top dispatch throws, createStore.js:174-179
ReducerThrows ==
    /\ stack # << >>
    /\ Top.pc = "reducer"
    /\ Reduce(Top.reducer, Top.state, Top.action) = Raised
    /\ isDispatching' = FlagAfterReducer(TRUE)
    /\ currentListeners' = ListenersAfterThrow
    /\ stack' = Pop
    /\ ret' = Result(Top.op, "ReducerError", Undefined)
    /\ UNCHANGED <<created, currentReducer, currentState,
                   nextListeners, nextIsCurrent, regs, observers, audit>>
    /\ UNCHANGED composed

\* createStore.js:181, the dispatches below the top one once currentListeners
\* is assigned nextListeners: a `listeners` that was the current array is so
\* still only if nextListeners was that array
Demoted(stk) ==
    [k \in 1 .. Len(stk) |-> [stk[k] EXCEPT !.isCurrent = @ /\ nextIsCurrent]]

\* the top dispatch once its reducer is done with: what is left of it is the
\* loop over `listeners`, createStore.js:181-185.  For the properties it
\* keeps the listeners it has called (invoked), the elements `listeners` had
\* when the loop began (snap) and the callbacks that were subscribed then, in
\* the order of their subscribe calls (live).
Notifying(frame) ==
    [action |-> NoAction, reducer |-> "undefined", state |-> Undefined,
     op |-> frame.op, pc |-> "listener",
     listeners |-> nextListeners, isCurrent |-> TRUE, i |-> 0,
     invoked |-> <<nextListeners[1]>>, snap |-> nextListeners,
     live |-> Subscribed(regs)]

\* the reducer of the top dispatch returns, createStore.js:174-184: the state
\* is stored, the flag cleared, the listeners snapshotted and the first
\* listener called; without listeners the dispatch returns (:187)
ReducerReturns ==
    /\ stack # << >>
    /\ Top.pc = "reducer"
    /\ Reduce(Top.reducer, Top.state, Top.action) # Raised
    /\ currentState' = StoredState(Reduce(Top.reducer, Top.state, Top.action))
    /\ isDispatching' = FlagAfterReducer(FALSE)
    /\ currentListeners' = nextListeners
    /\ nextIsCurrent' = TRUE
    /\ IF Len(nextListeners) = 0
       THEN /\ stack' = Demoted(Pop)
            /\ ret' = Result(Top.op, "ok", Undefined)
            /\ UNCHANGED <<observers, audit>>
       ELSE /\ stack' = Append(Demoted(Pop), Notifying(Top))
            /\ ret' = Result(Top.op, "notifying", Undefined)
            /\ observers' = Deliver(nextListeners[1],
                                    StoredState(Reduce(Top.reducer, Top.state, Top.action)))
            /\ audit' = AuditInvoke(nextListeners[1],
                                    StoredState(Reduce(Top.reducer, Top.state, Top.action)))
    /\ UNCHANGED <<created, currentReducer, nextListeners, regs>>
    /\ UNCHANGED composed

\* the running listener returns, createStore.js:182-187: the loop calls the
\* next listener of the array, or the dispatch returns
ListenerReturns ==
    /\ stack # << >>
    /\ Top.pc = "listener"
    /\ IF Top.i + 1 < Len(Top.listeners)
       THEN /\ stack' = [stack EXCEPT ![Len(stack)] =
                           [@ EXCEPT !.i = @ + 1,
                                     !.invoked = Append(@, Top.listeners[Top.i + 2])]]
            /\ ret' = Result(Top.op, "notifying", Undefined)
            /\ observers' = Deliver(Top.listeners[Top.i + 2], currentState)
            /\ audit' = AuditInvoke(Top.listeners[Top.i + 2], currentState)
       ELSE /\ stack' = Pop
            /\ ret' = Result(Top.op, "ok", Undefined)
            /\ UNCHANGED <<observers, audit>>
    /\ UNCHANGED <<created, currentReducer, currentState, currentListeners,
                   nextListeners, nextIsCurrent, isDispatching, regs>>
    /\ UNCHANGED composed

\* a dispatch that undoes the step of its reducer when a listener throws
StateRolledBack == (currentState + StateMod - 1) % StateMod

\* createStore.js:176 and :182-185, the state once a listener has thrown:
\* the assignment of :176 is done with and no try encloses the loop
StateAfterListenerThrow == currentState

\* the running listener throws, createStore.js:184: the error leaves dispatch
ListenerThrows ==
    /\ stack # << >>
    /\ Top.pc = "listener"
    /\ stack' = Pop
    /\ ret' = Result(Top.op, "ListenerError", Undefined)
    /\ currentState' = StateAfterListenerThrow
    /\ UNCHANGED <<created, currentReducer, currentListeners,
                   nextListeners, nextIsCurrent, isDispatching, regs,
                   observers, audit>>
    /\ UNCHANGED composed

(* ------------------------------ observable ---------------------------- *)
(* subscribe of the observable, createStore.js:226-240, is not one step:   *)
(* observeState() at :237 calls observer.next, which is code of the        *)
(* application and may call the store or throw, and outerSubscribe at :238 *)
(* comes after it.  A first delivery under way is a call on the stack      *)
(* (pc "observer"), like a listener that runs.                             *)

\* createStore.js:227-229, the guard of the subscribe of the observable
ObserverCheck(observer) ==
    IF observer = "notobj" THEN "InvalidArgument" ELSE "ok"

\* the closures observeState of observers without a next method, which do
\* nothing when called (:232), in the order in which subscribe makes them
ObserveNothing == <<"q1", "q2", "q3">>

\* createStore.js:237 and :232-233, observeState() called by subscribe:
\* observer.next has been entered with getState(), kept in state
Delivering ==
    [action |-> NoAction, reducer |-> "undefined", state |-> currentState,
     op |-> "observable.subscribe", pc |-> "observer",
     listeners |-> << >>, isCurrent |-> FALSE, i |-> 0,
     invoked |-> << >>, snap |-> << >>, live |-> << >>]

\* the first deliveries that have not returned
Pending == Len(SelectSeq(stack, LAMBDA frame : frame.pc = "observer"))

\* an observable that registers its listener without a first delivery
FirstDeliverySkipped(reg) == [reg |-> reg, last |-> Undefined, n |-> 0]

\* createStore.js:231-238, the observer once its first observer.next has
\* returned: it has been handed one value, the state of the moment of that
\* call (last is the value it was handed last, n the number of deliveries
\* modulo 2), and reg is the subscription that outerSubscribe(observeState)
\* makes
FirstDelivery(reg) == [reg |-> reg, last |-> Top.state, n |-> 1]

\* createStore.js:232 and :238, an observer without next: nothing is
\* delivered and the listener is registered
NoDelivery(reg) == [reg |-> reg, last |-> Undefined, n |-> 0]

\* observable().subscribe(observer), createStore.js:226-237, called by the
\* code that is running, up to the call of observer.next; for an observer
\* without next, to its end, :226-240 (maxSubs and maxObservers bound the
\* model)
ObservableSubscribe(observer, maxSubs, maxObservers) ==
    /\ created
    /\ IF ObserverCheck(observer) # "ok"
       THEN /\ ret' = Result("observable.subscribe", ObserverCheck(observer), Undefined)
            /\ UNCHANGED <<currentListeners, nextListeners, nextIsCurrent, regs,
                           stack, observers>>
       ELSE IF observer = "nonext"
       THEN \* :232 is false, :238 subscribes
            IF SubscribeCheck(ObserveNothing[Len(observers) + 1]) # "ok"
            THEN /\ ret' = Result("observable.subscribe",
                                  SubscribeCheck(ObserveNothing[Len(observers) + 1]),
                                  Undefined)
                 /\ UNCHANGED <<currentListeners, nextListeners, nextIsCurrent, regs,
                                stack, observers>>
            ELSE /\ Len(regs) < maxSubs
                 /\ Len(observers) + Pending < maxObservers
                 /\ Register(ObserveNothing[Len(observers) + 1])
                 /\ observers' = Append(observers, NoDelivery(Len(regs) + 1))
                 /\ ret' = Result("observable.subscribe", "ok", Undefined)
       ELSE IF GetStateCheck # "ok"
       THEN \* :233, the getState() of the first observeState() throws
            /\ ret' = Result("observable.subscribe", GetStateCheck, Undefined)
            /\ UNCHANGED <<currentListeners, nextListeners, nextIsCurrent, regs,
                           stack, observers>>
       ELSE /\ Len(regs) < maxSubs
            /\ Len(observers) + Pending < maxObservers
            /\ stack' = Append(stack, Delivering)
            /\ ret' = Result("observable.subscribe", "delivering", Undefined)
            /\ UNCHANGED <<currentListeners, nextListeners, nextIsCurrent, regs,
                           observers>>
    /\ UNCHANGED <<created, currentReducer, currentState, isDispatching, audit>>
    /\ UNCHANGED composed

\* the observer.next of a first delivery returns, createStore.js:237-239:
\* outerSubscribe(observeState) registers the listener and subscribe
\* returns.  No reducer runs when a first delivery is the running code, so
\* the guards of subscribe are passed (maxSubs bounds the model).
ObserverReturns(maxSubs) ==
    /\ stack # << >>
    /\ Top.pc = "observer"
    /\ SubscribeCheck(ObserveState[Len(observers) + 1]) = "ok"
    /\ Len(regs) < maxSubs
    /\ RegisterIn(Pop, ObserveState[Len(observers) + 1])
    /\ observers' = Append(observers, FirstDelivery(Len(regs) + 1))
    /\ ret' = Result("observable.subscribe", "ok", Undefined)
    /\ UNCHANGED <<created, currentReducer, currentState, isDispatching, audit>>
    /\ UNCHANGED composed

\* the observer.next of a first delivery throws, createStore.js:233 and
\* :237: the error leaves subscribe before :238 is reached
ObserverThrows ==
    /\ stack # << >>
    /\ Top.pc = "observer"
    /\ stack' = Pop
    /\ ret' = Result("observable.subscribe", "ObserverError", Undefined)
    /\ UNCHANGED <<created, currentReducer, currentState, currentListeners,
                   nextListeners, nextIsCurrent, isDispatching, regs,
                   observers, audit>>
    /\ UNCHANGED composed

(* ------------------------ applyMiddleware, continued ------------------- *)

(* The middlewares under test.  Each has the shape                         *)
(*   api => next => action => { log(i, 'before', api.getState());          *)
(*                              next(action);                              *)
(*                              log(i, 'after', api.getState()) }          *)
(* and in addition                                                         *)
(*   redo       its handler, after 'before', calls api.dispatch({type:     *)
(*              'INC'}) when action.type === 'AGAIN'                       *)
(*   eager      calls api.dispatch({type: 'INC'}) in a try/catch when it   *)
(*              is called with api, and logs what it caught                *)
(*   eagerNext  does the same when it is called with next                  *)
(*   hasty      calls api.dispatch({type: 'INC'}) when it is called with   *)
(*              api, outside any try                                       *)
Middlewares == {"logger", "redo", "eager", "eagerNext", "hasty"}
MiddlewareLists == UNION {[1 .. n -> Middlewares] : n \in 0 .. MaxMiddlewares}
\* the types of the actions dispatched to the enhanced store
MiddlewareTypes == {"INC", "AGAIN"}

\* an entry of the log: who wrote it (0: the store), what, and the state the
\* store held
Event(who, ev, state) == [who |-> who, ev |-> ev, state |-> state]
\* a run of calls so far: the reducer and state of the store, the log, and
\* "ok" or the error that is propagating
Logged(run, event) == [run EXCEPT !.log = Append(@, event)]

\* an applyMiddleware that starts from store.dispatch
InitialDispatchIsStore == StoreDispatch

\* applyMiddleware.js:35-40, the first value of `dispatch`
InitialDispatch == [kind |-> "placeholder", chain |-> << >>]

\* a middlewareAPI whose dispatch is store.dispatch
ApiTargetStore(current) == StoreDispatch

\* applyMiddleware.js:44, the function that middlewareAPI.dispatch calls:
\* the value `dispatch` has at the time of the call
ApiTarget(current) == current

\* compose.js:8-18 applied the other way round: fn(...(f2(f1(arg))))
RECURSIVE composeLeftToRight(_, _)
composeLeftToRight(funcs, arg) ==
    IF Len(funcs) = 0 THEN arg
    ELSE [kind |-> "handler",
          chain |-> <<funcs[Len(funcs)]>> \o
                    composeLeftToRight(SubSeq(funcs, 1, Len(funcs) - 1), arg).chain]

\* compose(...funcs)(arg), compose.js:8-18, for funcs that are the `next =>
\* action => ...` of the middlewares named: f1(f2(...fn(arg)))
RECURSIVE compose(_, _)
compose(funcs, arg) ==
    IF Len(funcs) = 0 THEN arg
    ELSE [kind |-> "handler",
          chain |-> <<Head(funcs)>> \o compose(Tail(funcs), arg).chain]

\* store.dispatch(action) of a store whose listeners make no calls,
\* createStore.js:156-188
BaseDispatch(type, run) ==
    LET next == Reduce(run.reducer, run.state, [plain |-> TRUE, type |-> type])
    IN  [run EXCEPT !.state = next,
                    !.log = @ \o <<Event(0, "base", next)>> \o
                            [k \in 1 .. Len(nextListeners) |-> Event(0, "listener", next)]]

\* fn(action): the call of a dispatch function while `dispatch` is current
RECURSIVE RunDispatch(_, _, _, _)
\* the handlers of chain run on the action, then store.dispatch
RECURSIVE RunChain(_, _, _, _)

RunDispatch(fn, current, type, run) ==
    IF run.outcome # "ok" THEN run
    ELSE IF fn.kind = "placeholder" THEN [run EXCEPT !.outcome = "PrematureDispatch"]
    ELSE RunChain(fn.chain, current, type, run)

RunChain(chain, current, type, run) ==
    IF chain = << >> THEN BaseDispatch(type, run)
    ELSE LET i == Head(chain)
             before == Logged(run, Event(i, "before", run.state))
             again == IF middlewares[i] = "redo" /\ type = "AGAIN"
                      THEN RunDispatch(ApiTarget(current), current, "INC",
                                       Logged(before, Event(i, "dispatch", before.state)))
                      ELSE before
             forwarded == IF again.outcome = "ok"
                          THEN RunChain(Tail(chain), current, type, again)
                          ELSE again
         IN  IF forwarded.outcome = "ok"
             THEN Logged(forwarded, Event(i, "after", forwarded.state))
             ELSE forwarded

\* a middleware calls api.dispatch while applyMiddleware runs, :48-49; caught
\* tells whether it does so inside a try/catch
EarlyDispatch(i, caught, run) ==
    LET called == RunDispatch(ApiTarget(InitialDispatch), InitialDispatch, "INC",
                              Logged(run, Event(i, "dispatch", run.state)))
    IN  IF caught /\ called.outcome # "ok"
        THEN [Logged(called, Event(i, called.outcome, called.state))
                 EXCEPT !.outcome = "ok"]
        ELSE called

\* applyMiddleware.js:48, middlewares.map(middleware => middleware(api)),
\* from the k-th middleware on
RECURSIVE SetupPhase(_, _, _)
SetupPhase(mws, k, run) ==
    IF k > Len(mws) \/ run.outcome # "ok" THEN run
    ELSE SetupPhase(mws, k + 1,
                    IF mws[k] \in {"eager", "hasty"}
                    THEN EarlyDispatch(k, mws[k] = "eager", run)
                    ELSE run)

\* applyMiddleware.js:49, the calls of the `next => ...` functions that
\* compose(...chain)(store.dispatch) makes, the last of the chain first,
\* from the k-th middleware down
RECURSIVE WrapPhase(_, _, _)
WrapPhase(mws, k, run) ==
    IF k < 1 \/ run.outcome # "ok" THEN run
    ELSE WrapPhase(mws, k - 1,
                   IF mws[k] = "eagerNext" THEN EarlyDispatch(k, TRUE, run) ELSE run)

\* the variables of the store core that applyMiddleware leaves alone, and
\* those of combineReducers
besideMiddleware == <<regs, stack, observers, audit, combination, root, res>>

\* applyMiddleware(...mws)(createStore)(counter), applyMiddleware.js:30-56
ApplyMiddleware(mws) ==
    /\ ~created
    /\ installed.kind = "none"
    /\ LET store == [reducer |-> "counter",
                     state |-> InitialState("counter", Undefined),
                     log |-> << >>, outcome |-> "ok"]
           run == WrapPhase(mws, Len(mws), SetupPhase(mws, 1, store))
       IN  IF run.outcome # "ok"
           THEN \* the error leaves applyMiddleware: no store is returned
                /\ ret' = Result("applyMiddleware", run.outcome, Undefined)
                /\ log' = run.log
                /\ UNCHANGED <<created, currentReducer, currentState, currentListeners,
                               nextListeners, nextIsCurrent, isDispatching,
                               middlewares, installed>>
           ELSE /\ created' = TRUE
                /\ currentReducer' = "counter"
                /\ currentState' = run.state
                /\ currentListeners' = InitialListeners
                /\ nextListeners' = InitialListeners
                /\ nextIsCurrent' = TRUE
                /\ isDispatching' = FALSE
                /\ middlewares' = mws
                /\ installed' = compose([k \in 1 .. Len(mws) |-> k], StoreDispatch)
                /\ log' = run.log
                /\ ret' = Result("applyMiddleware", "ok", Undefined)
    /\ UNCHANGED besideMiddleware

\* dispatch(action) of the store that applyMiddleware returned,
\* applyMiddleware.js:52-55
EnhancedDispatch(type) ==
    /\ created
    /\ installed.kind = "handler"
    /\ stack = << >>
    /\ LET run == RunDispatch(installed, installed, type,
                              [reducer |-> currentReducer, state |-> currentState,
                               log |-> << >>, outcome |-> "ok"])
       IN  /\ currentState' = run.state
           /\ log' = run.log
           /\ ret' = Result("dispatch", run.outcome, Undefined)
    /\ currentListeners' = nextListeners
    /\ nextIsCurrent' = TRUE
    /\ UNCHANGED <<created, currentReducer, nextListeners, isDispatching,
                   middlewares, installed>>
    /\ UNCHANGED besideMiddleware

(* ------------------------------ behaviours ----------------------------- *)
\* The store driven with every kind of argument, by the application and by
\* the reducers and listeners it runs.
Next ==
    \/ \E reducer \in ReducerArgs, preloadedState \in StateValues \cup {Undefined},
          enhancer \in EnhancerArgs : CreateStore(reducer, preloadedState, enhancer)
    \/ GetState
    \/ \E listener \in ListenerArgs : Subscribe(listener, MaxSubs)
    \/ \E r \in 1 .. MaxSubs : Unsubscribe(r)
    \/ \E action \in Actions : Dispatch(action, MaxDepth)
    \/ \E nextReducer \in ReducerArgs : ReplaceReducer(nextReducer, MaxDepth)
    \/ ReducerThrows
    \/ ReducerReturns
    \/ ListenerReturns
    \/ ListenerThrows

Spec == Init /\ [][Next]_vars

\* The listener protocol: a store of the counter reducer, more subscriptions,
\* and well-formed calls only.
NextListeners ==
    \/ CreateStore("counter", Undefined, "undefined")
    \/ GetState
    \/ \E listener \in Callbacks : Subscribe(listener, MaxRegs)
    \/ \E r \in 1 .. MaxRegs : Unsubscribe(r)
    \/ Dispatch([plain |-> TRUE, type |-> "INC"], MaxNest)
    \/ ReducerReturns
    \/ ListenerReturns
    \/ ListenerThrows

SpecListeners == Init /\ [][NextListeners]_vars

\* The listener protocol again, with the history of each top-level dispatch.
InitAudited == InitStore /\ audit = [AuditOff EXCEPT !.on = TRUE]

SpecAudited == InitAudited /\ [][NextListeners]_vars

\* The order of notification: three subscriptions, no nested dispatch.
NextOrder ==
    \/ CreateStore("counter", Undefined, "undefined")
    \/ \E listener \in Callbacks : Subscribe(listener, MaxOrderSubs)
    \/ \E r \in 1 .. MaxOrderSubs : Unsubscribe(r)
    \/ Dispatch([plain |-> TRUE, type |-> "INC"], MaxOrderDepth)
    \/ ReducerReturns
    \/ ListenerReturns

SpecOrder == Init /\ [][NextOrder]_vars

\* The observable: a store of the counter reducer with an observer and other
\* listeners beside it.  The application dispatches, and so does an observer
\* in the first delivery of a subscribe that the application calls;
\* reducers, listeners and observers subscribe and unsubscribe, and
\* listeners and observers may throw.
NextObservable ==
    \/ CreateStore("counter", Undefined, "undefined")
    \/ \E observer \in ObserverArgs :
          ObservableSubscribe(observer, MaxObsSubs, MaxObservers)
    \/ \E listener \in ListenerArgs : Subscribe(listener, MaxObsSubs)
    \/ \E r \in 1 .. MaxObsSubs : Unsubscribe(r)
    \/ /\ IF stack = << >> THEN TRUE ELSE Len(stack) = 1 /\ Top.pc = "observer"
       /\ Dispatch([plain |-> TRUE, type |-> "INC"], Len(stack) + 1)
    \/ ReducerReturns
    \/ ListenerReturns
    \/ ListenerThrows
    \/ ObserverReturns(MaxObsSubs)
    \/ ObserverThrows

SpecObservable == Init /\ [][NextObservable]_vars

\* combineReducers: every mapping, the combination called on every state
\* record, and a store that is given the combination as its reducer.
NextCombined ==
    \/ /\ ~combination.made
       /\ \E reducers \in Mappings : CombineReducers(reducers)
    \/ /\ res.op = "combineReducers"
       /\ \E state \in Records \cup {Absent}, type \in AllTypes :
             CallCombination(state, type)
    \/ /\ ~root.created
       /\ \E reducer \in {"keep", "combination"}, preloadedState \in PreloadedStates :
             RootCreate(reducer, preloadedState)
    \/ \E type \in CombinedTypes : RootDispatch(type)
    \/ \E nextReducer \in {"keep", "combination"} : RootReplaceReducer(nextReducer)

SpecCombined == Init /\ [][NextCombined]_vars

\* combineReducers and state records with a key that the mapping does not
\* name: the combination called on such records, and a store that is
\* created with one as its preloaded state.
NextStray ==
    \/ /\ ~combination.made
       /\ \E reducers \in Mappings : CombineReducers(reducers)
    \/ /\ res.op = "combineReducers"
       /\ \E state \in StrayStates \cup {Absent}, type \in AllTypes :
             CallCombination(state, type)
    \/ /\ ~root.created
       /\ \E reducer \in {"keep", "combination"}, preloadedState \in StrayStates :
             RootCreate(reducer, preloadedState)
    \/ \E type \in CombinedTypes : RootDispatch(type)
    \/ \E nextReducer \in {"keep", "combination"} : RootReplaceReducer(nextReducer)

SpecStray == Init /\ [][NextStray]_vars

\* applyMiddleware: every list of middlewares, a store of the counter reducer
\* made through it, listeners subscribed to it, and actions dispatched to it.
NextMiddleware ==
    \/ /\ ~created
       /\ \E mws \in MiddlewareLists : ApplyMiddleware(mws)
    \/ \E listener \in ListenerArgs : Subscribe(listener, MaxSubs)
    \/ \E type \in MiddlewareTypes : EnhancedDispatch(type)

SpecMiddleware == Init /\ [][NextMiddleware]_vars

TypeOK ==
    /\ created \in BOOLEAN
    /\ currentReducer \in CallableReducers \cup {"undefined"}
    /\ currentState \in StateValues \cup {Undefined}
    /\ nextIsCurrent \in BOOLEAN
    /\ isDispatching \in BOOLEAN

(* ------------------------------ properties ----------------------------- *)
\* the code that is running is the reducer of a dispatch
InReducer == stack # << >> /\ Top.pc = "reducer"
\* the code that is running is a listener that a dispatch is notifying
InListener == stack # << >> /\ Top.pc = "listener"

\* this step is a call of getState, of subscribe with one of `listeners`, of
\* an unsubscribe that is still subscribed, or of dispatch with a valid action
StoreCall(listeners) ==
    \/ GetState
    \/ \E l \in listeners : Subscribe(l, MaxSubs)
    \/ \E r \in 1 .. Len(regs) : regs[r].isSubscribed /\ Unsubscribe(r)
    \/ \E a \in ValidActions : Dispatch(a, MaxDepth)

\* C1 as stated: while the reducer of a dispatch is executing, every call of
\* getState, subscribe, a still subscribed unsubscribe, or dispatch with a
\* valid action fails with IllegalReentrancy.
C1_Original ==
    [][InReducer /\ StoreCall(ListenerArgs) => ret'.outcome = "IllegalReentrancy"]_vars

\* C1, amended: the same for subscribe calls whose listener is callable (a
\* listener that is no function fails with InvalidArgument first); the failed
\* call changes nothing of the store.
C1_ReentrancyInReducer ==
    [][InReducer /\ StoreCall(ListenerArgs \cap Callbacks) =>
          /\ ret'.outcome = "IllegalReentrancy"
          /\ UNCHANGED <<currentReducer, currentState, currentListeners,
                         nextListeners, nextIsCurrent, isDispatching, regs, stack>>]_vars

C1_Witness ==
    InReducer /\ ret = Result("subscribe", "IllegalReentrancy", Undefined)

\* C2: when the reducer throws, the dispatch ends with that error at its
\* caller and with the flag cleared, and the calls the caller makes next are
\* accepted as in the Idle state.
C2_FlagClearedOnThrow ==
    [][/\ ReducerThrows =>
            /\ ret' = Result(Top.op, "ReducerError", Undefined)
            /\ stack' = Pop
       /\ ret'.outcome = "ReducerError" => ~isDispatching'
       /\ ret.outcome = "ReducerError" =>
            /\ GetState => ret' = Result("getState", "ok", currentState)
            /\ \A l \in ListenerArgs \cap Callbacks :
                  Subscribe(l, MaxSubs) => ret'.outcome = "ok" /\ Len(regs') = Len(regs) + 1
            /\ \A r \in 1 .. Len(regs) :
                  regs[r].isSubscribed /\ Unsubscribe(r) =>
                      ret'.outcome = "ok" /\ ~regs'[r].isSubscribed
            /\ \A a \in ValidActions :
                  Dispatch(a, MaxDepth) => ret'.outcome = "entered" /\ Len(stack') = Len(stack) + 1
      ]_vars

C2_Witness ==
    /\ ret = Result("dispatch", "ReducerError", Undefined)
    /\ InListener
    /\ ~isDispatching

\* C3: the state a reducer application leaves is the reducer that was current
\* when the dispatch was called, applied to the state before and the action;
\* the state did not change while the reducer ran; and nothing but a reducer
\* application (and the construction of the store) changes the state.
C3_StateFollowsReducer ==
    [][/\ ReducerReturns =>
            /\ Top.state = currentState
            /\ currentState' = Reduce(Top.reducer, currentState, Top.action)
       /\ currentState' # currentState => ReducerReturns \/ (~created /\ created')
      ]_vars

C3_Witness ==
    /\ InListener
    /\ ret = Result("dispatch", "ok", Undefined)
    /\ currentReducer = "counter"
    /\ currentState = 1

\* every dispatch that is notifying loops over the elements its array had when
\* the notification began and has called the first i+1 of them; the array of
\* the next dispatch holds each callback as often as it is subscribed
SnapshotKept ==
    /\ \A k \in 1 .. Len(stack) :
          stack[k].pc = "listener" =>
              /\ stack[k].listeners = stack[k].snap
              /\ stack[k].invoked = SubSeq(stack[k].snap, 1, stack[k].i + 1)
    /\ \A c \in Callbacks : Count(nextListeners, c) = Count(Subscribed(regs), c)

\* C4 (SpecListeners): the listeners a dispatch calls are the elements its
\* array had when the notification began, whatever is subscribed and
\* unsubscribed meanwhile, by listeners and in nested dispatches: the array it
\* loops over keeps those elements, it has called the first i+1 of them while
\* the listener at index i runs, and it has called all of them when it returns.
\* The array of the next dispatch holds each callback as often as it is
\* subscribed: a listener that unsubscribed itself is in the snapshot under way
\* and not in the next.
C4_SnapshotIsolation ==
    [][/\ SnapshotKept'
       /\ ListenerReturns /\ Len(stack') < Len(stack) => Top.invoked = Top.snap
      ]_vars

C4_Witness ==
    /\ Len(stack) = 2
    /\ stack[1].pc = "listener"
    /\ stack[2].pc = "listener"
    /\ stack[1].snap = <<"f">>
    /\ ~regs[1].isSubscribed
    /\ stack[2].snap # stack[1].snap
    /\ nextListeners # stack[2].snap

\* C5 as stated: a dispatch called by a listener that is being notified fails
\* with IllegalReentrancy.
C5_Original ==
    [][InListener /\ (\E a \in ValidActions : Dispatch(a, MaxDepth)) =>
          ret'.outcome = "IllegalReentrancy"]_vars

\* C5, amended: a dispatch of a valid action called by a listener that is being
\* notified is accepted and runs the reducer; the store is Dispatching exactly
\* while a reducer is executing, not while listeners are notified.
C5_NestedDispatchAccepted ==
    [][/\ InListener /\ (\E a \in ValidActions : Dispatch(a, MaxDepth)) =>
            /\ ret'.outcome = "entered"
            /\ Len(stack') = Len(stack) + 1
            /\ stack'[Len(stack')].pc = "reducer"
       /\ isDispatching' <=> (stack' # << >> /\ stack'[Len(stack')].pc = "reducer")
      ]_vars

C5_Witness ==
    /\ Len(stack) = 2
    /\ stack[1].pc = "listener"
    /\ stack[2].pc = "reducer"
    /\ isDispatching
    /\ ret = Result("dispatch", "entered", Undefined)

\* this step is a call of getState, of subscribe with a callback, or of an
\* unsubscribe that is still subscribed (SpecListeners)
ListenerCall ==
    \/ GetState
    \/ \E l \in Callbacks : Subscribe(l, MaxRegs)
    \/ \E r \in 1 .. Len(regs) : regs[r].isSubscribed /\ Unsubscribe(r)

\* C6 as stated (SpecListeners): getState, subscribe and unsubscribe called by
\* a listener that is being notified fail with IllegalReentrancy.
C6_Original ==
    [][InListener /\ ListenerCall => ret'.outcome = "IllegalReentrancy"]_vars

\* C6, amended (SpecListeners): getState, subscribe and unsubscribe called by a
\* listener that is being notified are accepted: getState returns the state
\* the dispatch stored, subscribe registers the listener, unsubscribe removes
\* the registration.
C6_CallsFromListenerAccepted ==
    [][InListener =>
          /\ GetState => ret' = Result("getState", "ok", currentState)
          /\ \A l \in Callbacks :
                Subscribe(l, MaxRegs) =>
                    /\ ret'.outcome = "ok"
                    /\ regs' = Append(regs, [listener |-> l, isSubscribed |-> TRUE])
                    /\ nextListeners' = Append(nextListeners, l)
          /\ \A r \in 1 .. Len(regs) :
                regs[r].isSubscribed /\ Unsubscribe(r) =>
                    /\ ret'.outcome = "ok"
                    /\ ~regs'[r].isSubscribed
                    /\ Len(nextListeners') = Len(nextListeners) - 1
      ]_vars

C6_Witness ==
    /\ InListener
    /\ ret = Result("subscribe", "ok", Undefined)
    /\ nextListeners # Top.snap

\* C7 as stated (SpecOrder): a dispatch that returns has called the callbacks
\* that were subscribed when its notification began, each once, in the order
\* of their subscribe calls.
C7_Original ==
    [][ListenerReturns /\ Len(stack') < Len(stack) => Top.invoked = Top.live]_vars

\* C8 as stated (SpecOrder): an unsubscribe removes the registration of its own
\* subscribe call and leaves every other where it is, so the listener array
\* always is the callbacks of the subscribed registrations, oldest first.
C8_Original == nextListeners = Subscribed(regs)

\* C9: dispatch with an action that is no plain object, or that has no type,
\* fails with InvalidAction in every state of the store, also while a reducer
\* is executing, and changes nothing: no reducer is entered, no listener
\* called.
C9_InvalidAction ==
    [][\A a \in InvalidActions :
          Dispatch(a, MaxDepth) =>
              /\ ret' = Result("dispatch", "InvalidAction", Undefined)
              /\ UNCHANGED <<currentReducer, currentState, currentListeners,
                             nextListeners, nextIsCurrent, isDispatching, regs, stack>>
      ]_vars

C9_Witness ==
    InReducer /\ ret = Result("dispatch", "InvalidAction", Undefined)

\* C10: createStore without enhancer, when it returns a store, has applied the
\* reducer once, to the preloaded state and INIT; the store is Idle, no
\* dispatch is under way and no listener is registered.
C10_CreateDispatchesInit ==
    [][\A reducer \in ReducerArgs, preloadedState \in StateValues \cup {Undefined} :
          CreateStore(reducer, preloadedState, "undefined") /\ created' =>
              /\ currentReducer' = reducer
              /\ currentState' = Reduce(reducer, preloadedState, InitAction)
              /\ ~isDispatching'
              /\ currentListeners' = << >>
              /\ nextListeners' = << >>
              /\ stack' = << >>
              /\ regs' = << >>
      ]_vars

C10_Witness ==
    /\ ret = Result("createStore", "ok", Undefined)
    /\ currentReducer = "fragile"
    /\ currentState = 1
    /\ ~isDispatching

(* ---------------------------- replaceReducer --------------------------- *)
\* C11: a replaceReducer(newReducer) called while no reducer runs installs
\* newReducer and starts exactly one dispatch, of the REPLACE action, computed
\* by newReducer on the current state; that dispatch notifies the listeners as
\* every dispatch does; and every dispatch started afterwards runs the
\* reducer installed last, which only replaceReducer changes.
C11_ReplaceDispatchesOnce ==
    [][/\ \A r \in CallableReducers :
             (~isDispatching /\ Len(stack) < MaxDepth /\ ReplaceReducer(r, MaxDepth)) =>
                 /\ currentReducer' = r
                 /\ stack' = Append(stack,
                                    [action |-> ReplaceAction, reducer |-> r,
                                     state |-> currentState, op |-> "replaceReducer",
                                     pc |-> "reducer", listeners |-> << >>,
                                     isCurrent |-> FALSE, i |-> 0, invoked |-> << >>,
                                     snap |-> << >>, live |-> << >>])
                 /\ UNCHANGED <<currentState, currentListeners, nextListeners>>
       /\ (ReducerReturns /\ Top.op = "replaceReducer") =>
             /\ currentState' = Reduce(Top.reducer, currentState, ReplaceAction)
             /\ Len(nextListeners) > 0 =>
                   /\ Len(stack') = Len(stack)
                   /\ Top'.pc = "listener"
                   /\ Top'.invoked = <<nextListeners[1]>>
                   /\ Top'.snap = nextListeners
       /\ \A a \in ValidActions :
             (~isDispatching /\ Len(stack) < MaxDepth /\ Dispatch(a, MaxDepth)) =>
                 /\ Top'.reducer = currentReducer
                 /\ Top'.action = a
       /\ (created /\ currentReducer' # currentReducer) =>
             \E r \in CallableReducers : ReplaceReducer(r, MaxDepth)
      ]_vars

C11_Witness ==
    /\ stack = << >>
    /\ ret = Result("replaceReducer", "ok", Undefined)
    /\ currentReducer = "fragile"
    /\ currentState = 0
    /\ nextListeners = <<"f">>

(* ------------------------ the reducer raises --------------------------- *)
\* C20: when the reducer raises during a dispatch, the dispatch ends there:
\* the stored state, the current reducer and both listener lists are what
\* they were, the snapshot is not promoted, and no listener is invoked (the
\* dispatch never reaches its listener loop).
C20_ThrowLeavesStore ==
    [][ReducerThrows =>
          /\ UNCHANGED <<currentState, currentReducer, currentListeners,
                         nextListeners, nextIsCurrent, regs>>
          /\ stack' = Pop
          /\ \A k \in 1 .. Len(stack') : stack'[k] = stack[k]
          /\ ret' = Result(Top.op, "ReducerError", Undefined)
      ]_vars

C20_Witness ==
    /\ ret = Result("dispatch", "ReducerError", Undefined)
    /\ currentReducer = "fragile"
    /\ nextListeners = <<"f">>
    /\ currentListeners = << >>
    /\ ~nextIsCurrent

(* ------------------------------ observable ----------------------------- *)
\* the elements of a sequence
Elements(seq) == {seq[k] : k \in 1 .. Len(seq)}

\* this step calls the listener observeState of the k-th observer: the loop
\* of the top dispatch calls one more listener, and it is that one
ObserverCalled(k) ==
    /\ stack # << >>
    /\ Len(stack') = Len(stack)
    /\ Top'.pc = "listener"
    /\ Top'.invoked # Top.invoked
    /\ Top'.invoked[Len(Top'.invoked)] = ObserveState[k]

\* this step is the subscribe of the observable with an observer that has a
\* next method, called while no reducer runs (SpecObservable)
ObserverSubscribes ==
    /\ ~isDispatching
    /\ Len(observers) + Pending < MaxObservers
    /\ Len(regs) < MaxObsSubs
    /\ ObservableSubscribe("observer", MaxObsSubs, MaxObservers)

\* C12 as stated (SpecObservable): once an observer is subscribed, every
\* change of the store delivers the then-current state to it: a dispatch that
\* has stored a state and found the observer's listener registered does not
\* end before it has called that listener.
C12_Original ==
    [][(InListener /\ Len(stack') < Len(stack)) =>
          \A k \in 1 .. Len(observers) :
              ObserveState[k] \in Elements(Top.snap) =>
                  ObserveState[k] \in Elements(Top.invoked)
      ]_vars

\* C12, amended (SpecObservable): subscribing an observer while no reducer
\* runs hands it the current state once, before anything is registered; when
\* that call of the observer returns, the internal listener is registered,
\* and when it raises, nothing is; the observer is then handed a value
\* exactly when that listener is called, and the value is the state the
\* store then holds; a dispatch whose listener loop runs to its end has
\* called the internal listener if it was registered when the loop began; a
\* successful unsubscribe of the stream removes the internal listener, and
\* no dispatch that stores its state after that calls it.
C12_ObserverNotified ==
    [][/\ ObserverSubscribes =>
             /\ stack' = Append(stack, Delivering)
             /\ Top'.state = currentState
             /\ UNCHANGED <<currentState, currentListeners, nextListeners, regs,
                            observers>>
       /\ ObserverReturns(MaxObsSubs) =>
             /\ observers' = Append(observers, [reg |-> Len(regs) + 1,
                                                last |-> Top.state, n |-> 1])
             /\ nextListeners' = Append(nextListeners, ObserveState[Len(observers')])
             /\ regs' = Append(regs, [listener |-> ObserveState[Len(observers')],
                                      isSubscribed |-> TRUE])
             /\ stack' = Pop
             /\ ret' = Result("observable.subscribe", "ok", Undefined)
       /\ ObserverThrows =>
             /\ stack' = Pop
             /\ ret' = Result("observable.subscribe", "ObserverError", Undefined)
             /\ UNCHANGED <<currentState, currentListeners, nextListeners, regs,
                            observers>>
       /\ \A k \in 1 .. Len(observers) :
             /\ ObserverCalled(k) =>
                   observers'[k] = [reg |-> observers[k].reg, last |-> currentState',
                                    n |-> 1 - observers[k].n]
             /\ ~ObserverCalled(k) => observers'[k] = observers[k]
             /\ (InListener /\ Len(stack') < Len(stack)
                   /\ ObserveState[k] \in Elements(Top.snap) /\ ListenerReturns) =>
                   ObserveState[k] \in Elements(Top.invoked)
             /\ (~isDispatching /\ regs[observers[k].reg].isSubscribed
                   /\ Len(stack') = Len(stack) /\ Unsubscribe(observers[k].reg)) =>
                   /\ ObserveState[k] \notin Elements(nextListeners')
                   /\ ret' = Result("unsubscribe", "ok", Undefined)
             /\ (~regs[observers[k].reg].isSubscribed /\ InReducer
                   /\ ReducerReturns) =>
                   /\ ObserveState[k] \notin Elements(currentListeners')
                   /\ ~ObserverCalled(k)
                   /\ Len(stack') = Len(stack) =>
                         ObserveState[k] \notin Elements(Top'.snap)
      ]_vars

C12_Witness ==
    /\ Len(observers) = 1
    /\ observers[1].last = 1
    /\ observers[1].n = 1
    /\ ~regs[observers[1].reg].isSubscribed
    /\ currentState = 0
    /\ stack = << >>
    /\ ret = Result("dispatch", "ok", Undefined)

(* ------------------- listeners and the latest state -------------------- *)
\* C19 (SpecAudited): when a top-level dispatch has returned normally, every
\* listener that was subscribed when it was called has been called at least
\* once, since then, while the store held the state it holds now.
C19_Original ==
    (audit.on /\ stack = << >> /\ ret = Result("dispatch", "ok", Undefined)) =>
        audit.before \subseteq audit.seen[currentState]

(* ---------------------------- combineReducers -------------------------- *)
\* the sub-reducer yields undefined for the absent state and INIT, or for
\* the absent state and the probe action
FailsShape(reducer) ==
    \/ SubReduce(reducer, Undefined, INIT) = Undefined
    \/ SubReduce(reducer, Undefined, PROBE) = Undefined

\* this step is a call of the combination by the application, on any state
\* record and action (no other step leaves that op in res)
CombinationCalled == res'.op = "combination"
\* this step is a dispatch to the store of state records
RootDispatched == root.created /\ res'.op = "dispatch"

\* C13 (SpecCombined): combineReducers validates once: a ShapeError is
\* recorded exactly if some callable sub-reducer yields undefined for (absent
\* state, INIT) or (absent state, PROBE), and what is recorded never changes;
\* when one is recorded, every call of the combination, for every state and
\* action, throws that recorded error and calls no sub-reducer, and a store
\* that has the combination as its reducer never changes its state.
C13_ShapeErrorCached ==
    [][/\ (~combination.made /\ combination'.made) =>
             IF \E k \in 1 .. Len(combination'.finalReducers) :
                    FailsShape(combination'.finalReducers[k].reducer)
             THEN combination'.shapeAssertionError.name = "ShapeError"
             ELSE combination'.shapeAssertionError = NoError
       /\ combination.made => combination' = combination
       /\ (combination.made /\ combination.shapeAssertionError # NoError) =>
             /\ CombinationCalled =>
                   /\ res'.outcome = "ShapeError"
                   /\ res'.error = combination.shapeAssertionError
                   /\ res'.calls = << >>
             /\ (root'.reducer = "combination" \/ root.reducer = "combination") =>
                   root'.state = root.state
             /\ (root.reducer = "combination" /\ RootDispatched) =>
                   /\ res'.outcome = "ShapeError"
                   /\ res'.error = combination.shapeAssertionError
                   /\ res'.calls = << >>
      ]_vars

C13_Witness ==
    /\ root.created
    /\ root.reducer = "combination"
    /\ root.state = [ref |-> 0, fields |-> [k \in {"a"} |-> 0]]
    /\ combination.shapeAssertionError = ShapeError("b", PROBE)
    /\ res.op = "dispatch"
    /\ res.outcome = "ShapeError"

\* the sub-result of the k-th sub-reducer of the combination for (state,
\* action of that type)
SubResult(state, type, k) ==
    SubReduce(combination.finalReducers[k].reducer,
              Property(state, combination.finalReducers[k].key), type)

\* every sub-result is the previous substate
NothingChanged(state, type) ==
    \A k \in 1 .. Len(combination.finalReducers) :
        SubResult(state, type, k) = Property(state, combination.finalReducers[k].key)

\* the properties of a record that holds every sub-result
AllSubResults(state, type) ==
    [key \in {combination.finalReducers[k].key :
                 k \in 1 .. Len(combination.finalReducers)} |->
        SubResult(state, type,
                  CHOOSE k \in 1 .. Len(combination.finalReducers) :
                      combination.finalReducers[k].key = key)]

\* what the claim says of the value the combination returns for (state,
\* action of that type)
SameOrRebuilt(state, type, value) ==
    IF NothingChanged(state, type)
    THEN value = state
    ELSE /\ value.ref # state.ref
         /\ value.fields = AllSubResults(state, type)

\* C14 (SpecCombined): called on a state record, the combination returns that
\* very record if every sub-result is identical to the previous substate, and
\* otherwise a new record that holds every sub-result; so a dispatch of an
\* action that no sub-reducer recognizes leaves the store with the very
\* record it held.
C14_SameRecordIfUnchanged ==
    [][/\ (res'.op = "combination" /\ res'.outcome = "ok" /\ res'.state # Absent) =>
             SameOrRebuilt(res'.state, res'.type, res'.value)
       /\ (RootDispatched /\ root.reducer = "combination" /\ res'.outcome = "ok") =>
             /\ root'.state = res'.value
             /\ SameOrRebuilt(root.state, res'.type, root'.state)
             /\ res'.type = "NOP" => root'.state = root.state
      ]_vars

C14_Witness ==
    /\ root.created
    /\ root.reducer = "combination"
    /\ res.op = "dispatch"
    /\ res.type = "NOP"
    /\ res.outcome = "ok"
    /\ root.state = [ref |-> 1, fields |-> [k \in {"a", "b"} |-> 1]]

\* the first sub-reducer of the combination that yields undefined for
\* (state, action of that type); 0 if none does
FirstUndefined(state, type) ==
    IF \E k \in 1 .. Len(combination.finalReducers) :
           SubResult(state, type, k) = Undefined
    THEN CHOOSE k \in 1 .. Len(combination.finalReducers) :
             /\ SubResult(state, type, k) = Undefined
             /\ \A j \in 1 .. (k - 1) : SubResult(state, type, j) # Undefined
    ELSE 0

\* C15 (SpecCombined): when a sub-reducer of a combination that passed its
\* validation yields undefined for the action, the combination throws
\* UndefinedSubstate for that key; when the combination is the reducer of the
\* store, the dispatch fails with that error and the store keeps the very
\* record it held, the substates of the keys before the failing key included.
C15_UndefinedSubstate ==
    [][combination.shapeAssertionError = NoError =>
          /\ (res'.op = "combination" /\ FirstUndefined(res'.state, res'.type) > 0) =>
                /\ res'.outcome = "UndefinedSubstate"
                /\ res'.error.name = "UndefinedSubstate"
                /\ res'.error.key =
                      combination.finalReducers[FirstUndefined(res'.state, res'.type)].key
          /\ (RootDispatched /\ root.reducer = "combination"
                /\ FirstUndefined(root.state, res'.type) > 0) =>
                /\ res'.outcome = "UndefinedSubstate"
                /\ res'.error =
                      UndefinedSubstate(
                          combination.finalReducers[FirstUndefined(root.state, res'.type)].key,
                          res'.type)
                /\ root' = root
      ]_vars

C15_Witness ==
    /\ root.created
    /\ root.reducer = "combination"
    /\ combination.finalReducers = <<[key |-> "a", reducer |-> "tally"],
                                     [key |-> "b", reducer |-> "drops"]>>
    /\ res.op = "dispatch"
    /\ res.type = "DROP"
    /\ res.outcome = "UndefinedSubstate"
    /\ res.calls = <<"a", "b">>
    /\ root.state = [ref |-> 0, fields |-> [k \in {"a", "b"} |-> 0]]

(* ---------------------------- applyMiddleware -------------------------- *)

\* the 'before' entries of m1 .. mn at state s
Befores(n, s) == [k \in 1 .. n |-> Event(k, "before", s)]
\* the 'after' entries of mn .. m1 at state s
Afters(n, s) == [k \in 1 .. n |-> Event(n + 1 - k, "after", s)]
\* the entries of store.dispatch: the reducer, then each listener
Base(s, type) ==
    LET next == Reduce("counter", s, [plain |-> TRUE, type |-> type])
    IN  <<Event(0, "base", next)>> \o
        [k \in 1 .. Len(nextListeners) |-> Event(0, "listener", next)]
\* the state after store.dispatch
After(s, type) == Reduce("counter", s, [plain |-> TRUE, type |-> type])
\* one passage of an action through m1 .. mn and the store
Traversal(n, s, type) == Befores(n, s) \o Base(s, type) \o Afters(n, After(s, type))
\* the handlers of the chain forward the action and dispatch nothing else
Forwarding(type) == type = "INC" \/ \A k \in 1 .. Len(middlewares) : middlewares[k] # "redo"

\* C16: an action passed to the dispatch of a store made with
\* applyMiddleware(m1, ..., mn) enters m1 first, each mi hands it to m(i+1)
\* and mn to the store's own dispatch, so that with middlewares that log
\* before and after calling next the log reads m1-before, ..., mn-before,
\* store dispatch (reducer, listeners), mn-after, ..., m1-after.
C16_ChainOrder ==
    [][\A type \in MiddlewareTypes :
          EnhancedDispatch(type) /\ Forwarding(type) =>
              /\ installed.chain = [k \in 1 .. Len(middlewares) |-> k]
              /\ log' = Traversal(Len(middlewares), currentState, type)
              /\ currentState' = After(currentState, type)]_vars

C16_Witness ==
    /\ ret.op = "dispatch"
    /\ Len(middlewares) >= 2
    /\ Len(currentListeners) >= 1
    /\ Len(log) = 2 * Len(middlewares) + 2
    /\ log[1] = Event(1, "before", 0)
    /\ log[2] = Event(2, "before", 0)
    /\ log[Len(middlewares) + 1] = Event(0, "base", 1)
    /\ log[Len(log)] = Event(1, "after", 1)

\* applyMiddleware has just run
Applied == ~created /\ ret'.op = "applyMiddleware"
\* the j-th entry of the log is a call of api.dispatch that failed with
\* PrematureDispatch: caught by its caller, or ending applyMiddleware
FailedPremature(l, j, r, made) ==
    \/ /\ j < Len(l)
       /\ l[j + 1] = Event(l[j].who, "PrematureDispatch", l[j].state)
    \/ /\ j = Len(l)
       /\ r.outcome = "PrematureDispatch"
       /\ ~made

\* C17: a call of the capability object's dispatch made while applyMiddleware
\* is still calling the middlewares or assembling the chain fails with
\* PrematureDispatch, reaches no middleware handler and not the store's
\* dispatch, and leaves the state of the store as createStore made it.
C17_PrematureDispatch ==
    [][Applied =>
          /\ \A j \in 1 .. Len(log') :
                /\ log'[j].ev \in {"dispatch", "PrematureDispatch"}
                /\ log'[j].state = InitialState("counter", Undefined)
                /\ log'[j].ev = "dispatch" => FailedPremature(log', j, ret', created')
          /\ created' => currentState' = InitialState("counter", Undefined)]_vars

C17_Witness ==
    /\ ret.op = "applyMiddleware"
    /\ created
    /\ Len(middlewares) >= 2
    /\ middlewares[1] = "eager"
    /\ middlewares[2] = "eagerNext"
    /\ Len(log) >= 4
    /\ log[1] = Event(1, "dispatch", 0)
    /\ log[2] = Event(1, "PrematureDispatch", 0)
    /\ log[3] = Event(2, "dispatch", 0)
    /\ currentState = 0

\* mi is the only middleware that dispatches from its handler
OnlyRedo(i) ==
    \A k \in 1 .. Len(middlewares) : (middlewares[k] = "redo") = (k = i)
\* the log of an AGAIN when mi alone answers it with api.dispatch({type: 'INC'})
TraversalWithRedo(n, i, s) ==
    SubSeq(Befores(n, s), 1, i) \o <<Event(i, "dispatch", s)>> \o
    Traversal(n, s, "INC") \o
    SubSeq(Befores(n, After(s, "INC")), i + 1, n) \o
    Base(After(s, "INC"), "AGAIN") \o
    Afters(n, After(After(s, "INC"), "AGAIN"))

\* C18: once the chain is installed, an action that a middleware mi at any
\* position dispatches through the capability object enters m1 and passes
\* the whole chain and the store, neither starting after mi nor going to the
\* store directly, and the capability object's getState reads the state of
\* the store.
C18_ApiDispatchFullChain ==
    [][\A type \in MiddlewareTypes :
          EnhancedDispatch(type) =>
              /\ \A j \in 1 .. Len(log') :
                    log'[j].ev = "dispatch" =>
                        /\ j < Len(log')
                        /\ log'[j + 1] = Event(1, "before", log'[j].state)
              /\ \A i \in 1 .. Len(middlewares) :
                    type = "AGAIN" /\ OnlyRedo(i) =>
                        log' = TraversalWithRedo(Len(middlewares), i, currentState)
              /\ ret'.outcome = "ok"]_vars

C18_Witness ==
    /\ ret.op = "dispatch"
    /\ Len(middlewares) >= 2
    /\ OnlyRedo(Len(middlewares))
    /\ Len(log) = 4 * Len(middlewares) + 3
    /\ log[Len(middlewares) + 1] = Event(Len(middlewares), "dispatch", 0)
    /\ log[Len(middlewares) + 2] = Event(1, "before", 0)
    /\ log[Len(log)] = Event(1, "after", 1)

(* ------------------- replaceReducer is not rolled back ------------------ *)
\* the dispatch that ends is the REPLACE dispatch of a replaceReducer
ReplaceDispatchThrows == ReducerThrows /\ Top.op = "replaceReducer"

\* C21: replaceReducer with a function installs it before the REPLACE
\* dispatch and nothing undoes that: when the dispatch is refused because a
\* reducer is running (IllegalReentrancy), or the new reducer raises on
\* REPLACE, the stored state is what it was and the new reducer stays the
\* current one, which later dispatches run; with a non-function it fails
\* with InvalidArgument and changes nothing.
C21_ReplaceNotRolledBack ==
    [][/\ \A r \in ReducerArgs :
             ReplaceReducer(r, MaxDepth) =>
                 IF IsFunction(r)
                 THEN /\ currentReducer' = r
                      /\ currentState' = currentState
                      /\ isDispatching =>
                            /\ ret' = Result("replaceReducer", "IllegalReentrancy", Undefined)
                            /\ UNCHANGED <<stack, isDispatching>>
                 ELSE /\ ret' = Result("replaceReducer", "InvalidArgument", Undefined)
                      /\ UNCHANGED <<created, currentReducer, currentState,
                                     currentListeners, nextListeners, nextIsCurrent,
                                     isDispatching, regs, stack>>
       /\ ReplaceDispatchThrows =>
             /\ ret' = Result("replaceReducer", "ReducerError", Undefined)
             /\ UNCHANGED <<currentReducer, currentState>>
       /\ (ret' = Result("dispatch", "entered", Undefined) /\ Len(stack') = Len(stack) + 1) =>
             Top'.reducer = currentReducer
      ]_vars

C21_Witness ==
    /\ stack = << >>
    /\ ret = Result("replaceReducer", "ReducerError", Undefined)
    /\ currentReducer = "broken"
    /\ currentState = 1

\* a replaceReducer called by the counter reducer was refused its dispatch
\* and has installed its argument
ReplacedWhileReducing ==
    /\ stack # << >>
    /\ Top.pc = "reducer"
    /\ Top.reducer = "counter"
    /\ ret = Result("replaceReducer", "IllegalReentrancy", Undefined)
    /\ currentReducer = "broken"

(* --------------------------- a listener raises ------------------------- *)
\* C22: when a listener raises while it is notified, the dispatch ends with
\* that error at its caller: the listeners after it in the snapshot are not
\* called for that dispatch, the state the reducer computed stays stored,
\* and no reducer is running, so that a later dispatch is accepted, takes
\* the listener list as it then is for its snapshot and calls all of it.
C22_ListenerRaises ==
    [][/\ ListenerThrows =>
             /\ ret' = Result(Top.op, "ListenerError", Undefined)
             /\ stack' = Pop
             /\ Top.invoked = SubSeq(Top.snap, 1, Top.i + 1)
             /\ ~isDispatching'
             /\ UNCHANGED <<currentState, currentReducer, currentListeners,
                            nextListeners, nextIsCurrent, regs>>
       /\ (~isDispatching /\ Len(stack) < MaxNest
             /\ Dispatch([plain |-> TRUE, type |-> "INC"], MaxNest)) =>
             /\ ret' = Result("dispatch", "entered", Undefined)
             /\ Top'.state = currentState
       /\ (ReducerReturns /\ Len(nextListeners) > 0) =>
             /\ Top'.snap = nextListeners
             /\ Top'.listeners = nextListeners
       /\ (ListenerReturns /\ Len(stack') < Len(stack)) => Top.invoked = Top.snap
      ]_vars

\* a listener of the snapshot f, g has raised in the first dispatch: the
\* state of that dispatch is stored and no dispatch runs
C22_Witness ==
    /\ stack = << >>
    /\ ret = Result("dispatch", "ListenerError", Undefined)
    /\ nextListeners = <<"f", "g">>
    /\ currentListeners = <<"f", "g">>
    /\ ~isDispatching
    /\ currentState = 1

(* ------------------- the keys of the combined state -------------------- *)
\* the keys of finalReducers, combineReducers.js:158
FinalReducerKeys ==
    {combination.finalReducers[k].key : k \in 1 .. Len(combination.finalReducers)}
\* the keys of a state record
OwnKeys(state) == DOMAIN state.fields
\* the keys of the state of the store that have no sub-reducer
StrayKeys == OwnKeys(root.state) \ FinalReducerKeys
\* this step is a dispatch or a replaceReducer of the store of state records
\* that runs the combination
RootCombined ==
    /\ root.created
    /\ res'.op \in {"dispatch", "replaceReducer"}
    /\ root'.reducer = "combination"
\* a sub-reducer that this step has called has returned a substate other
\* than the previous one
CalledSubChanged ==
    \E k \in 1 .. Len(res'.calls) :
        /\ SubResult(root.state, res'.type, k) # Undefined
        /\ SubResult(root.state, res'.type, k) # Property(root.state, res'.calls[k])

\* C23 as stated, for the store: a key without a sub-reducer is dropped by
\* every dispatch for which some sub-reducer returns a changed substate and
\* stays through every other.
C23_Original ==
    [][RootCombined =>
          \A key \in StrayKeys :
              IF CalledSubChanged
              THEN key \notin OwnKeys(root'.state)
              ELSE key \in OwnKeys(root'.state)
      ]_vars

\* C23: a record the combination returns that is not its input has exactly
\* the keys of the callable sub-reducers, and when it returns its input the
\* keys without a sub-reducer are still there.  In a store such a key stays
\* until the first dispatch (that of replaceReducer included) in which the
\* combination returns and some sub-reducer has returned a changed
\* substate; that dispatch drops it.  A dispatch in which the combination
\* throws leaves the key, whatever the sub-reducers called before returned.
C23_StrayKeys ==
    [][/\ (CombinationCalled /\ res'.outcome = "ok") =>
             IF res'.value.ref # res'.state.ref
             THEN OwnKeys(res'.value) = FinalReducerKeys
             ELSE res'.value = res'.state
       /\ (~root.created /\ root'.created /\ root'.reducer = "combination") =>
             \/ OwnKeys(root'.state) = FinalReducerKeys
             \/ root'.state \in StrayStates
       /\ RootCombined =>
             IF res'.outcome = "ok" /\ CalledSubChanged
             THEN OwnKeys(root'.state) = FinalReducerKeys
             ELSE root'.state = root.state
      ]_vars

\* the stray key came with the preloaded state, outlived a dispatch that
\* changed nothing, and the INC dispatch has dropped it
C23_Witness ==
    /\ root.created
    /\ root.reducer = "combination"
    /\ combination.finalReducers = <<[key |-> "a", reducer |-> "tally"]>>
    /\ res.op = "dispatch"
    /\ res.type = "INC"
    /\ res.outcome = "ok"
    /\ root.state = [ref |-> 1, fields |-> [k \in {"a"} |-> 1]]

\* the stray key is in the state of a store whose reducer is the combination
StrayKept ==
    /\ root.created
    /\ root.reducer = "combination"
    /\ StrayKey \in StrayKeys
    /\ res.op = "dispatch"
    /\ res.outcome = "ok"

====
